---- MODULE Spec2Model ----
(***************************************************************************)
(* State-machine model of src/index.tsx: the feature registry, the view    *)
(* controller (renderFeature and its delayed swap), the generation         *)
(* orchestrator (handleGenerate and its await points), the output          *)
(* renderers and the tabbed pane controller.                               *)
(*                                                                         *)
(* The browser runs one handler at a time.  Every action below is one      *)
(* handler run from its start to its next await (or to its end): a click   *)
(* listener, a timer callback, or the resumption of handleGenerate after   *)
(* an awaited promise settles.                                             *)
(*                                                                         *)
(* Texts returned by the API (chunks, JSON fields) are plain texts without *)
(* markup, so a rendered output holds exactly the elements its template    *)
(* writes.  The html and css of a mockup are sequences of characters; a    *)
(* character that cannot be written in a string is named by its code      *)
(* point.                                                                  *)
(***************************************************************************)
EXTENDS Integers, Sequences, FiniteSets, TLC

\* ------------------------------------------------------------ bounds

\* How many pending setTimeout callbacks of renderFeature the model follows.
MaxTimers == 2
\* How many chunks one stream delivers at most.
MaxChunks == 2
\* How many of the page's nav buttons (in the order of AllNavKeys) are clicked.
NavCount == 5
\* How many characters the html and the css of a mockup hold at most.
MaxPreviewLen == 2
\* How many pending timeouts of copy buttons the model follows.
MaxCopyTimeouts == 2

\* ----------------------------------------------------- configuration

\* The sentinel views: valid navigation targets with no FEATURES entry.
About == "about"
Author == "author"

\* getAttribute('data-feature') of a nav button without the attribute (null).
NoKey == "<null>"

\* const FEATURES: Record<string, FeatureConfig>
FEATURES ==
  [k \in {"code-generator", "bug-squasher", "code-explainer",
          "ui-mockup-generator", "doc-writer", "test-case-generator"} |->
    CASE k = "code-generator" ->
           [title |-> "Code Generator",
            description |-> "Describe functions, classes, or components, and let AI write the boilerplate.",
            promptPrefix |-> "You are an expert code generator. Generate a complete and functional code snippet based on the following request. Respond only with the code block in markdown format.\n\nRequest: ",
            buttonText |-> "Generate Code",
            responseType |-> "text",
            schema |-> {}]
      [] k = "bug-squasher" ->
           [title |-> "Bug Squasher",
            description |-> "Paste your broken code and get instant analysis, fixes, and explanations.",
            promptPrefix |-> "You are an expert bug squasher. Analyze the following code, identify any bugs, provide a corrected version, and explain the fix. Respond with a JSON object containing \"analysis\", \"correctedCode\", and \"explanation\".\n\nBroken Code:\n",
            buttonText |-> "Analyze Code",
            responseType |-> "json",
            schema |-> {"analysis", "correctedCode", "explanation"}]
      [] k = "code-explainer" ->
           [title |-> "Code Explainer",
            description |-> "Understand complex code snippets with simple, natural language explanations.",
            promptPrefix |-> "You are an expert code explainer. Explain the following code snippet in simple, natural language. Describe its purpose, how it works, and any key patterns or concepts used.\n\nCode to Explain:\n",
            buttonText |-> "Explain Code",
            responseType |-> "text",
            schema |-> {}]
      [] k = "ui-mockup-generator" ->
           [title |-> "UI Mockup Generator",
            description |-> "Turn text descriptions into high-fidelity UI mockups and component code.",
            promptPrefix |-> "You are an expert UI/UX designer and frontend developer. Based on the following description, generate the HTML and CSS to create the UI. Respond with a JSON object containing \"html\" and \"css\".\n\nUI Description: ",
            buttonText |-> "Generate Mockup",
            responseType |-> "json",
            schema |-> {"html", "css"}]
      [] k = "doc-writer" ->
           [title |-> "Documentation Writer",
            description |-> "Provide a code snippet and get professionally written documentation for it.",
            promptPrefix |-> "You are an expert technical writer. Generate clear and concise documentation for the following code snippet. Use markdown for formatting.\n\nCode for Documentation:\n",
            buttonText |-> "Generate Docs",
            responseType |-> "text",
            schema |-> {}]
      [] OTHER ->
           [title |-> "Test Case Generator",
            description |-> "Generate unit tests for your code to ensure reliability and catch regressions.",
            promptPrefix |-> "You are an expert software tester. Generate a comprehensive suite of unit tests for the following code. Use a popular testing framework relevant to the code's language. Respond only with the code block.\n\nCode to Test:\n",
            buttonText |-> "Generate Tests",
            responseType |-> "text",
            schema |-> {}]]

\* let activeFeature = 'code-generator'
DefaultFeature == "code-generator"

\* The data-feature values of the page's nav buttons: one per feature and
\* one per sentinel view.
AllNavKeys ==
  <<"code-generator", "bug-squasher", "ui-mockup-generator", About, Author,
    "code-explainer", "doc-writer", "test-case-generator">>

\* The nav buttons the model clicks, and a button without data-feature.
NavKeys ==
  {AllNavKeys[i] : i \in {j \in 1..Len(AllNavKeys) : j <= NavCount}} \cup {NoKey}

\* The three mutually exclusive view regions.
Views == {"feature", "about", "author"}

\* ------------------------------------------------------------- state

VARIABLES
  apiKey,            \* process.env.API_KEY is set (truthy)
  started,           \* init() has run
  handlers,          \* init attached the nav and generate click listeners
  workspace,         \* what #feature-view holds: the workspace or the error
  activeFeature,     \* let activeFeature
  isLoading,         \* let isLoading
  opacity,           \* featureTextWrapper.style.opacity
  navActive,         \* nav buttons carrying the class 'active'
  hidden,            \* view regions carrying the class 'hidden'
  header,            \* featureTitle, featureDescription, generateButton text
  prompt,            \* promptInput.value, a sequence of characters
  response,          \* responseContent
  loaderHidden,      \* loader carries the class 'hidden'
  generateDisabled,  \* generateButton.disabled
  promptDisabled,    \* promptInput.disabled
  timers,            \* pending renderFeature timeouts, oldest first
  inflight,          \* handleGenerate activations suspended at an await
  unhandled,         \* a handleGenerate promise rejected (exception escaped)
  preview,           \* the iframe of the output: html, css, srcdoc written
  copy,              \* the copy buttons of the output: labels, timeouts, clock
  stale,             \* a feature's swap ran while the request in flight waited
  event              \* the event the last step delivered

viewVars == <<activeFeature, opacity, navActive, hidden, header, timers>>
loadVars == <<isLoading, loaderHidden, generateDisabled, promptDisabled>>
bootVars == <<apiKey, started, handlers, workspace>>
auxVars == <<preview, copy>>
vars ==
  <<apiKey, started, handlers, workspace, activeFeature, isLoading, opacity,
    navActive, hidden, header, prompt, response, loaderHidden,
    generateDisabled, promptDisabled, timers, inflight, unhandled, preview,
    copy, stale, event>>

\* Everything but the record of the delivered event.
program ==
  <<apiKey, started, handlers, workspace, activeFeature, isLoading, opacity,
    navActive, hidden, header, prompt, response, loaderHidden,
    generateDisabled, promptDisabled, timers, inflight, unhandled, preview,
    copy>>

Event(op, arg) == [op |-> op, arg |-> arg]

\* ------------------------------------------------------- page markup

\* The header texts a feature's config puts on the page.
HeaderOf(k) ==
  [title |-> FEATURES[k].title,
   description |-> FEATURES[k].description,
   buttonText |-> FEATURES[k].buttonText]

\* The static page as delivered: the header and nav highlighting either
\* already show the default feature or are left for the script to fill.
InitialMarkups ==
  {[navActive |-> {DefaultFeature}, header |-> HeaderOf(DefaultFeature)],
   [navActive |-> {},
    header |-> [title |-> "", description |-> "", buttonText |-> ""]]}

\* responseContent.innerHTML = ''
EmptyResponse ==
  [kind |-> "empty", content |-> "", activeTabs |-> {}, visiblePanes |-> {}]

\* The output holds no iframe.
NoPreview == [stage |-> "none", html |-> <<>>, css |-> <<>>, srcdoc |-> <<>>]

\* The output holds no code block, so no copy button.
NoCopyButtons == [label |-> <<>>, timeouts |-> <<>>, sinceClick |-> <<>>]

\* ---------------------------------------------------- view controller

\* A copy-paste slip in the three toggles: the author view follows isAbout.
viewsHidden_authorFollowsAbout(featureKey) ==
  {v \in Views :
     \/ v = "about" /\ featureKey # About
     \/ v = "author" /\ featureKey # About
     \/ v = "feature" /\ (featureKey = About \/ featureKey = Author)}

\* The three classList.toggle('hidden', ...) calls of the callback.
viewsHidden(featureKey) ==
  LET isAbout == featureKey = About
      isAuthor == featureKey = Author
  IN {v \in Views :
        \/ v = "about" /\ ~isAbout
        \/ v = "author" /\ ~isAuthor
        \/ v = "feature" /\ (isAbout \/ isAuthor)}

\* The body of the setTimeout callback of renderFeature(featureKey).
\* Clearing the output removes its iframe and its copy buttons; a timeout
\* of a removed button changes nothing on the page and is followed no more.
swap(featureKey) ==
  LET isAbout == featureKey = About
      isAuthor == featureKey = Author
  IN /\ navActive' = {b \in {AllNavKeys[i] : i \in 1..Len(AllNavKeys)} : b = featureKey}
     /\ hidden' = viewsHidden(featureKey)
     /\ IF ~isAbout /\ ~isAuthor /\ featureKey \in DOMAIN FEATURES
          THEN /\ header' = HeaderOf(featureKey)
               /\ prompt' = <<>>
               /\ response' = EmptyResponse
               /\ preview' = NoPreview
               /\ copy' = NoCopyButtons
               /\ opacity' = "1"
          ELSE UNCHANGED <<header, prompt, response, preview, copy, opacity>>

\* renderFeature without the comparison with activeFeature.
renderFeature_noSameKeyCheck(featureKey) ==
  IF featureKey = NoKey \/ featureKey = ""
    THEN UNCHANGED <<activeFeature, opacity, timers>>
    ELSE /\ activeFeature' = featureKey
         /\ opacity' = "0"
         /\ timers' = Append(timers, featureKey)

\* function renderFeature(featureKey), up to the setTimeout call.
renderFeature(featureKey) ==
  IF featureKey = NoKey \/ featureKey = "" \/ featureKey = activeFeature
    THEN UNCHANGED <<activeFeature, opacity, timers>>
    ELSE /\ activeFeature' = featureKey
         /\ opacity' = "0"
         /\ timers' = Append(timers, featureKey)

\* A click on the nav button whose data-feature is k.
NavClick(k) ==
  /\ started
  /\ Len(timers) < MaxTimers
  /\ event' = Event("nav", k)
  /\ IF handlers
       THEN renderFeature(k)
       ELSE UNCHANGED <<activeFeature, opacity, timers>>
  /\ UNCHANGED <<navActive, hidden, header, prompt, response, inflight, unhandled>>
  /\ UNCHANGED loadVars
  /\ UNCHANGED bootVars
  /\ UNCHANGED auxVars
  /\ UNCHANGED stale

\* The oldest pending timeout fires (all have the same delay).
TimerFires ==
  /\ timers # <<>>
  /\ event' = Event("timer", Head(timers))
  /\ swap(Head(timers))
  /\ timers' = Tail(timers)
  /\ stale' = IF Head(timers) \in DOMAIN FEATURES /\ inflight # <<>>
                THEN TRUE ELSE stale
  /\ UNCHANGED <<activeFeature, inflight, unhandled>>
  /\ UNCHANGED loadVars
  /\ UNCHANGED bootVars

\* ------------------------------------------------ external collaborators

\* The texts typed into the prompt: empty, whitespace only, padded text.
Prompts == {<<>>, <<" ">>, <<" ", "\n">>, <<" ", "x", " ">>}

\* The characters trim() strips: WhiteSpace and LineTerminator of ECMAScript.
WhiteSpace ==
  {" ", "\t", "\n", "\f", "\r", "U+000B", "U+00A0", "U+1680", "U+2000",
   "U+2001", "U+2002", "U+2003", "U+2004", "U+2005", "U+2006", "U+2007",
   "U+2008", "U+2009", "U+200A", "U+2028", "U+2029", "U+202F", "U+205F",
   "U+3000", "U+FEFF"}

\* The input taken without trimming.
Trim_omitted(s) == s

\* String.prototype.trim on a sequence of characters.
RECURSIVE Trim(_)
Trim(s) ==
  IF s = <<>> THEN s
  ELSE IF Head(s) \in WhiteSpace THEN Trim(Tail(s))
  ELSE IF s[Len(s)] \in WhiteSpace THEN Trim(SubSeq(s, 1, Len(s) - 1))
  ELSE s

\* The value of a property the object does not have.
Undefined == "<undefined>"

\* Response texts of the single-shot call.
BugJson == "{\"analysis\":\"A\",\"correctedCode\":\"B\",\"explanation\":\"C\"}"
MockupJson == "{\"html\":\"<p>hi</p>\",\"css\":\"p{}\"}"
EmptyJson == "{}"
NullJson == "null"
NotJson == "Sorry, I cannot help with that."
JsonTexts == {BugJson, MockupJson, EmptyJson, NullJson, NotJson}

\* The text fragments a stream delivers.
Chunks == {"Hel", "lo"}

\* JSON.parse on the response texts above; the message is the one of V8.
JsonParse(text) ==
  CASE text = BugJson ->
         [ok |-> TRUE, error |-> "",
          value |-> [type |-> "object",
                     fields |-> [analysis |-> "A", correctedCode |-> "B",
                                 explanation |-> "C"]]]
    [] text = MockupJson ->
         [ok |-> TRUE, error |-> "",
          value |-> [type |-> "object",
                     fields |-> [html |-> <<"<", "p", ">", "h", "i", "<", "/", "p", ">">>,
                                 css |-> <<"p", "{", "}">>]]]
    [] text = EmptyJson ->
         [ok |-> TRUE, error |-> "",
          value |-> [type |-> "object", fields |-> <<>>]]
    [] text = NullJson ->
         [ok |-> TRUE, error |-> "",
          value |-> [type |-> "null", fields |-> <<>>]]
    [] OTHER ->
         [ok |-> FALSE,
          error |-> "Unexpected token 'S', \"Sorry, I c\"... is not valid JSON",
          value |-> [type |-> "undefined", fields |-> <<>>]]

\* data.f
Get(data, f) == IF f \in DOMAIN data.fields THEN data.fields[f] ELSE Undefined

\* `${x}` in a template literal
Interpolate(x) == IF x = Undefined THEN "undefined" ELSE x

\* marked.parse on a one-paragraph text without markup.
marked(src) == IF src = "" THEN "" ELSE "<p>" \o src \o "</p>\n"

\* ------------------------------------------------- the mockup preview
\* A text is a sequence whose elements are single characters or the pieces
\* of the template literals, none of which holds a double quote.

\* `${html}` and `${css}` of the srcDoc template, for a property that may
\* be missing.
InterpolateText(data, f) ==
  IF f \in DOMAIN data.fields THEN data.fields[f]
  ELSE <<"u", "n", "d", "e", "f", "i", "n", "e", "d">>

\* const srcDoc = `...<style>${css}</style>...<body>${html}</body>...`
srcDocOf(html, css) ==
  <<"\n        <!DOCTYPE html><html><head><style>">> \o css
    \o <<"</style></head>\n        <body>">> \o html
    \o <<"</body></html>\n    ">>

\* replace without the g flag: only the first double quote is replaced.
RECURSIVE escapeQuotes_firstOnly(_)
escapeQuotes_firstOnly(text) ==
  IF text = <<>> THEN <<>>
  ELSE IF Head(text) = "\"" THEN <<"&quot;">> \o Tail(text)
  ELSE <<Head(text)>> \o escapeQuotes_firstOnly(Tail(text))

\* srcDoc.replace(/"/g, '&quot;')
RECURSIVE escapeQuotes(_)
escapeQuotes(text) ==
  IF text = <<>> THEN <<>>
  ELSE (IF Head(text) = "\"" THEN <<"&quot;">> ELSE <<Head(text)>>)
         \o escapeQuotes(Tail(text))

\* The markup of the iframe: srcdoc="${...}"></iframe>
iframeMarkup(value) ==
  <<"<iframe class=", "\"", "preview-pane", "\"", " srcdoc=", "\"">>
    \o value \o <<"\"", "></iframe>">>

\* ----------------------------------------------------- copy buttons
\* Time is counted in milliseconds and passes in steps of half the
\* feedback delay; a timeout runs when its delay has passed.

\* setTimeout(..., 2000)
CopyFeedbackMs == 2000

\* The time one step of the clock takes.
ClockStep == CopyFeedbackMs \div 2

\* The <pre><code> blocks of a rendered output, by the tab that holds them.
CodeBlocksOf(kind) ==
  CASE kind = "analysis" -> {"code"}
    [] kind = "mockup" -> {"html", "css"}
    [] OTHER -> {}

\* function addCopyButtonsToCodeBlocks() on a freshly rendered output: one
\* button per code block.  sinceClick is the time since the button's last
\* activation, counted up to the delay (where it also starts).
addCopyButtonsToCodeBlocks(kind) ==
  [label |-> [b \in CodeBlocksOf(kind) |-> "Copy"],
   timeouts |-> <<>>,
   sinceClick |-> [b \in CodeBlocksOf(kind) |-> CopyFeedbackMs]]

\* ------------------------------------------------------ output renderer

\* What a renderer leaves: the output area and its iframe, or an exception.
Returned(r, p) == [threw |-> FALSE, message |-> "", response |-> r, preview |-> p]
Thrown(m) ==
  [threw |-> TRUE, message |-> m, response |-> EmptyResponse, preview |-> NoPreview]

\* function renderBugSquasherOutput(data)
renderBugSquasherOutput(data) ==
  IF data.type = "null"
    THEN Thrown("Cannot destructure property 'analysis' of 'data' as it is null.")
  ELSE IF Get(data, "analysis") = Undefined \/ Get(data, "explanation") = Undefined
    THEN Thrown("marked(): input parameter is undefined or null")
  ELSE Returned(
         [kind |-> "analysis",
          content |-> [analysis |-> marked(Get(data, "analysis")),
                       code |-> Interpolate(Get(data, "correctedCode")),
                       explanation |-> marked(Get(data, "explanation"))],
          activeTabs |-> {"analysis"},
          visiblePanes |-> {"tab-analysis"}],
         NoPreview)

\* function renderUiMockupOutput(data): the tabs, the iframe with its
\* srcdoc, and the two code panes; textContent = undefined leaves ''.
renderUiMockupOutput(data) ==
  IF data.type = "null"
    THEN Thrown("Cannot destructure property 'html' of 'data' as it is null.")
  ELSE Returned(
         [kind |-> "mockup",
          content |-> [htmlCode |-> IF "html" \in DOMAIN data.fields
                                      THEN data.fields.html ELSE <<>>,
                       cssCode |-> IF "css" \in DOMAIN data.fields
                                     THEN data.fields.css ELSE <<>>],
          activeTabs |-> {"preview"},
          visiblePanes |-> {"tab-preview"}],
         [stage |-> "written",
          html |-> InterpolateText(data, "html"),
          css |-> InterpolateText(data, "css"),
          srcdoc |-> escapeQuotes(srcDocOf(InterpolateText(data, "html"),
                                           InterpolateText(data, "css")))])

\* The error panel of the catch block.
ErrorPanel(message) ==
  [kind |-> "error", content |-> message, activeTabs |-> {}, visiblePanes |-> {}]

\* The data-tab values of the tab buttons of a tabbed output.
TabsOf(kind) ==
  CASE kind = "analysis" -> {"analysis", "code", "explanation"}
    [] kind = "mockup" -> {"preview", "html", "css"}
    [] OTHER -> {}

\* The ids of the panes of a tabbed output.
PanesOf(kind) ==
  CASE kind = "analysis" -> {"tab-analysis", "tab-code", "tab-explanation"}
    [] kind = "mockup" -> {"tab-preview", "tab-html", "tab-css"}
    [] OTHER -> {}

\* The listener showing the clicked pane without hiding the others.
tabClicked_othersStayVisible(tab) ==
  response' =
    [response EXCEPT
       !.activeTabs = {t \in TabsOf(response.kind) : t = tab},
       !.visiblePanes = response.visiblePanes \cup {"tab-" \o tab}]

\* The click listener setupTabbedInterface attaches to the tab button `tab`.
tabClicked(tab) ==
  response' =
    [response EXCEPT
       !.activeTabs = {t \in TabsOf(response.kind) : t = tab},
       !.visiblePanes = {p \in PanesOf(response.kind) : p = "tab-" \o tab}]

\* ----------------------------------------------- generation orchestrator

\* setLoading without the promptInput.disabled assignment.
setLoading_promptLeftAlone(loading) ==
  /\ isLoading' = loading
  /\ loaderHidden' = ~loading
  /\ generateDisabled' = loading
  /\ UNCHANGED promptDisabled

\* function setLoading(loading)
setLoading(loading) ==
  /\ isLoading' = loading
  /\ loaderHidden' = ~loading
  /\ generateDisabled' = loading
  /\ promptDisabled' = loading

\* inflight without its i-th activation.
Without(i) == [j \in 1..(Len(inflight) - 1) |-> inflight[IF j < i THEN j ELSE j + 1]]

\* The early return without the test of the loading flag.
returnsEarly_inputOnly(userInput) == userInput = <<>>

\* if (!userInput || isLoading) return;
returnsEarly(userInput) == userInput = <<>> \/ isLoading

\* async function handleGenerate(), from its start to its first await.
\* FEATURES[activeFeature] is undefined for a sentinel view, and reading
\* feature.promptPrefix then throws before the try block is entered.
handleGenerate ==
  LET userInput == Trim(prompt) IN
  IF returnsEarly(userInput)
    THEN /\ UNCHANGED <<response, inflight, unhandled>>
         /\ UNCHANGED loadVars
         /\ UNCHANGED auxVars
    ELSE /\ setLoading(TRUE)
         /\ response' = EmptyResponse
         /\ preview' = NoPreview
         /\ copy' = NoCopyButtons
         /\ IF activeFeature \notin DOMAIN FEATURES
              THEN /\ unhandled' = TRUE
                   /\ UNCHANGED inflight
              ELSE /\ inflight' =
                        Append(inflight,
                               [feature |-> activeFeature,
                                fullPrompt |-> <<FEATURES[activeFeature].promptPrefix>> \o userInput,
                                phase |-> IF FEATURES[activeFeature].responseType = "json"
                                            THEN "json" ELSE "open",
                                fullResponseText |-> "",
                                chunks |-> 0])
                   /\ UNCHANGED unhandled

\* A click on the generate button.
GenerateClick ==
  /\ started
  /\ event' = Event("generate", "")
  /\ IF handlers
       THEN handleGenerate
       ELSE /\ UNCHANGED <<response, inflight, unhandled>>
            /\ UNCHANGED loadVars
            /\ UNCHANGED auxVars
  /\ stale' = IF inflight' # inflight THEN FALSE ELSE stale
  /\ UNCHANGED <<prompt>>
  /\ UNCHANGED viewVars
  /\ UNCHANGED bootVars

\* The output an error panel leaves: no iframe, no copy button.
Failed(message) ==
  [response |-> ErrorPanel(message), preview |-> NoPreview, copy |-> NoCopyButtons]

\* What the try block leaves of the output given the result of JSON.parse:
\* the renderer chosen by activeFeature, setupTabbedInterface, the copy
\* buttons; a throw ends in the catch block's error panel.  With no
\* renderer for activeFeature the output stays the empty one that
\* handleGenerate left when it started, which holds no code block.
outcomeOf(parsed) ==
  LET rendered ==
        IF activeFeature = "bug-squasher"
          THEN renderBugSquasherOutput(parsed.value)
        ELSE IF activeFeature = "ui-mockup-generator"
          THEN renderUiMockupOutput(parsed.value)
        ELSE Returned(response, preview)
  IN IF ~parsed.ok THEN Failed(parsed.error)
     ELSE IF rendered.threw THEN Failed(rendered.message)
     ELSE [response |-> rendered.response,
           preview |-> rendered.preview,
           copy |-> IF activeFeature \in {"bug-squasher", "ui-mockup-generator"}
                      THEN addCopyButtonsToCodeBlocks(rendered.response.kind)
                      ELSE copy]

\* What the try block leaves once generateContent has resolved with `text`.
jsonOutcome(text) == outcomeOf(JsonParse(text))

\* handleGenerate, from the parsed response to its end.
resumed(i, parsed) ==
  /\ response' = outcomeOf(parsed).response
  /\ preview' = outcomeOf(parsed).preview
  /\ copy' = outcomeOf(parsed).copy
  /\ setLoading(FALSE)
  /\ inflight' = Without(i)
  /\ UNCHANGED <<prompt, unhandled>>
  /\ UNCHANGED viewVars
  /\ UNCHANGED bootVars
  /\ stale' = FALSE

\* handleGenerate resumes after `await ai.models.generateContent` resolved.
JsonResolves(i, text) ==
  /\ inflight[i].phase = "json"
  /\ event' = Event("resolve", text)
  /\ resumed(i, JsonParse(text))

\* The awaited API call rejects: catch block, then finally.
ApiRejects(i) ==
  /\ inflight[i].phase \in {"json", "open"}
  /\ event' = Event("reject", "")
  /\ response' = ErrorPanel("Failed to fetch")
  /\ setLoading(FALSE)
  /\ inflight' = Without(i)
  /\ UNCHANGED <<prompt, unhandled>>
  /\ UNCHANGED viewVars
  /\ UNCHANGED bootVars
  /\ preview' = NoPreview
  /\ copy' = NoCopyButtons
  /\ stale' = FALSE

\* `await ai.models.generateContentStream` resolved: the loop starts.
StreamOpens(i) ==
  /\ inflight[i].phase = "open"
  /\ event' = Event("open", "")
  /\ inflight' = [inflight EXCEPT ![i].phase = "stream", ![i].fullResponseText = ""]
  /\ UNCHANGED <<prompt, response, unhandled>>
  /\ UNCHANGED loadVars
  /\ UNCHANGED viewVars
  /\ UNCHANGED bootVars
  /\ UNCHANGED auxVars
  /\ UNCHANGED stale

\* The accumulator with the new chunk put in front.
appendChunk_prepends(fullResponseText, chunk) == chunk \o fullResponseText

\* The body of the for-await loop, for one chunk.
appendChunk(fullResponseText, chunk) == fullResponseText \o chunk

\* The stream delivers one chunk; textContent replaces all the output held.
StreamChunk(i, chunk) ==
  /\ inflight[i].phase = "stream"
  /\ inflight[i].chunks < MaxChunks
  /\ event' = Event("chunk", chunk)
  /\ inflight' =
       [inflight EXCEPT
          ![i].fullResponseText = appendChunk(inflight[i].fullResponseText, chunk),
          ![i].chunks = inflight[i].chunks + 1]
  /\ response' =
       [kind |-> "text",
        content |-> appendChunk(inflight[i].fullResponseText, chunk),
        activeTabs |-> {}, visiblePanes |-> {}]
  /\ UNCHANGED <<prompt, unhandled>>
  /\ UNCHANGED loadVars
  /\ UNCHANGED viewVars
  /\ UNCHANGED bootVars
  /\ preview' = NoPreview
  /\ copy' = NoCopyButtons
  /\ UNCHANGED stale

\* What the output area holds after the stream ended.
finalRender(fullResponseText) ==
  [kind |-> "html", content |-> marked(fullResponseText),
   activeTabs |-> {}, visiblePanes |-> {}]

\* The stream ends: marked.parse once, no code block to get a copy button
\* in the paragraph it returns, then finally.
StreamEnds(i) ==
  /\ inflight[i].phase = "stream"
  /\ event' = Event("end", "")
  /\ response' = finalRender(inflight[i].fullResponseText)
  /\ setLoading(FALSE)
  /\ inflight' = Without(i)
  /\ UNCHANGED <<prompt, unhandled>>
  /\ UNCHANGED viewVars
  /\ UNCHANGED bootVars
  /\ preview' = NoPreview
  /\ copy' = NoCopyButtons
  /\ stale' = FALSE

\* The failure with no catch block: the error escapes, finally still runs.
StreamFails_noCatch(i) ==
  /\ inflight[i].phase = "stream"
  /\ event' = Event("fail", "")
  /\ unhandled' = TRUE
  /\ setLoading(FALSE)
  /\ inflight' = Without(i)
  /\ UNCHANGED <<prompt, response>>
  /\ UNCHANGED viewVars
  /\ UNCHANGED bootVars
  /\ UNCHANGED auxVars
  /\ stale' = FALSE

\* The stream fails after the chunks delivered so far: catch, then finally.
StreamFails(i) ==
  /\ inflight[i].phase = "stream"
  /\ event' = Event("fail", "")
  /\ response' = ErrorPanel("Stream interrupted")
  /\ setLoading(FALSE)
  /\ inflight' = Without(i)
  /\ UNCHANGED <<prompt, unhandled>>
  /\ UNCHANGED viewVars
  /\ UNCHANGED bootVars
  /\ preview' = NoPreview
  /\ copy' = NoCopyButtons
  /\ stale' = FALSE

\* ------------------------------------------------------------ the user

\* The user edits the prompt (an enabled, visible textarea).
TypePrompt(text) ==
  /\ started
  /\ workspace = "workspace"
  /\ ~promptDisabled
  /\ "feature" \notin hidden
  /\ prompt # text
  /\ event' = Event("type", "")
  /\ prompt' = text
  /\ UNCHANGED <<response, inflight, unhandled>>
  /\ UNCHANGED loadVars
  /\ UNCHANGED viewVars
  /\ UNCHANGED bootVars
  /\ UNCHANGED auxVars
  /\ UNCHANGED stale

\* A click on a tab button of the rendered output.
TabClick(tab) ==
  /\ tab \in TabsOf(response.kind)
  /\ "feature" \notin hidden
  /\ event' = Event("tab", tab)
  /\ tabClicked(tab)
  /\ UNCHANGED <<prompt, inflight, unhandled>>
  /\ UNCHANGED loadVars
  /\ UNCHANGED viewVars
  /\ UNCHANGED bootVars
  /\ UNCHANGED auxVars
  /\ UNCHANGED stale

\* ------------------------------------------------- copy buttons in use

\* button.onclick of the button of code block b.
CopyClick(b) ==
  /\ b \in DOMAIN copy.label
  /\ Len(copy.timeouts) < MaxCopyTimeouts
  /\ copy' =
       [label |-> [copy.label EXCEPT ![b] = "Copied!"],
        timeouts |-> Append(copy.timeouts, [button |-> b, left |-> CopyFeedbackMs]),
        sinceClick |-> [copy.sinceClick EXCEPT ![b] = 0]]
  /\ event' = Event("copy", b)
  /\ UNCHANGED <<prompt, response, inflight, unhandled, preview, stale>>
  /\ UNCHANGED loadVars
  /\ UNCHANGED viewVars
  /\ UNCHANGED bootVars

\* The callback of the oldest timeout runs: its delay has passed.
CopyTimeoutFires ==
  /\ copy.timeouts # <<>>
  /\ Head(copy.timeouts).left = 0
  /\ copy' =
       [copy EXCEPT
          !.label[Head(copy.timeouts).button] = "Copy",
          !.timeouts = Tail(copy.timeouts)]
  /\ event' = Event("copyTimeout", Head(copy.timeouts).button)
  /\ UNCHANGED <<prompt, response, inflight, unhandled, preview, stale>>
  /\ UNCHANGED loadVars
  /\ UNCHANGED viewVars
  /\ UNCHANGED bootVars

\* Time passes, as long as no timeout is due and something is counting.  A
\* pending swap is due before one step of the clock has passed.
TimePasses ==
  /\ timers = <<>>
  /\ \A n \in 1..Len(copy.timeouts) : copy.timeouts[n].left >= ClockStep
  /\ \/ copy.timeouts # <<>>
     \/ \E b \in DOMAIN copy.label : copy.sinceClick[b] < CopyFeedbackMs
  /\ copy' =
       [copy EXCEPT
          !.timeouts = [n \in 1..Len(copy.timeouts) |->
                          [copy.timeouts[n] EXCEPT !.left = @ - ClockStep]],
          !.sinceClick = [b \in DOMAIN copy.label |->
                            IF copy.sinceClick[b] + ClockStep >= CopyFeedbackMs
                              THEN CopyFeedbackMs
                              ELSE copy.sinceClick[b] + ClockStep]]
  /\ event' = Event("clock", "")
  /\ UNCHANGED <<prompt, response, inflight, unhandled, preview, stale>>
  /\ UNCHANGED loadVars
  /\ UNCHANGED viewVars
  /\ UNCHANGED bootVars

\* ------------------------------------------------------------- startup

\* init without the return after the configuration error.
init_noReturn ==
  /\ ~started
  /\ started' = TRUE
  /\ event' = Event("init", "")
  /\ workspace' = IF ~apiKey THEN "configError" ELSE workspace
  /\ handlers' = TRUE
  /\ renderFeature(activeFeature)
  /\ UNCHANGED <<apiKey, navActive, hidden, header, prompt, response,
                 inflight, unhandled, stale>>
  /\ UNCHANGED loadVars
  /\ UNCHANGED auxVars

\* function init()
init ==
  /\ ~started
  /\ started' = TRUE
  /\ event' = Event("init", "")
  /\ IF ~apiKey
       THEN /\ workspace' = "configError"
            /\ UNCHANGED <<handlers, activeFeature, opacity, timers>>
       ELSE /\ handlers' = TRUE
            /\ renderFeature(activeFeature)
            /\ UNCHANGED workspace
  /\ UNCHANGED <<apiKey, navActive, hidden, header, prompt, response,
                 inflight, unhandled, stale>>
  /\ UNCHANGED loadVars
  /\ UNCHANGED auxVars

\* The module's top level, before init() is called.
Init ==
  /\ apiKey \in BOOLEAN
  /\ started = FALSE
  /\ handlers = FALSE
  /\ workspace = "workspace"
  /\ activeFeature = DefaultFeature
  /\ isLoading = FALSE
  /\ opacity = "1"
  /\ \E m \in InitialMarkups : navActive = m.navActive /\ header = m.header
  /\ hidden = {"about", "author"}
  /\ prompt = <<>>
  /\ response = EmptyResponse
  /\ loaderHidden = TRUE
  /\ generateDisabled = FALSE
  /\ promptDisabled = FALSE
  /\ timers = <<>>
  /\ inflight = <<>>
  /\ unhandled = FALSE
  /\ preview = NoPreview
  /\ copy = NoCopyButtons
  /\ stale = FALSE
  /\ event = Event("load", "")

Next ==
  \/ init
  \/ \E k \in NavKeys : NavClick(k)
  \/ TimerFires
  \/ \E text \in Prompts : TypePrompt(text)
  \/ GenerateClick
  \/ \E i \in 1..Len(inflight), text \in JsonTexts : JsonResolves(i, text)
  \/ \E i \in 1..Len(inflight) : ApiRejects(i)
  \/ \E i \in 1..Len(inflight) : StreamOpens(i)
  \/ \E i \in 1..Len(inflight), chunk \in Chunks : StreamChunk(i, chunk)
  \/ \E i \in 1..Len(inflight) : StreamEnds(i)
  \/ \E i \in 1..Len(inflight) : StreamFails(i)
  \/ \E tab \in TabsOf(response.kind) : TabClick(tab)
  \/ \E b \in DOMAIN copy.label : CopyClick(b)
  \/ CopyTimeoutFires
  \/ TimePasses

Spec == Init /\ [][Next]_vars

\* ------------------------------------- mockups of any html and css

\* The characters the returned html and css are made of.
PreviewChars == {"\"", "a", "&"}

\* All texts of at most n characters.
TextsUpTo(n) == UNION {[1..m -> PreviewChars] : m \in 0..n}

\* A text as the characters of a JSON string: the double quote is escaped.
RECURSIVE JsonChars(_)
JsonChars(text) ==
  IF text = <<>> THEN ""
  ELSE (IF Head(text) = "\"" THEN "\\\"" ELSE Head(text)) \o JsonChars(Tail(text))

\* JSON.stringify of a text.
JsonString(text) == "\"" \o JsonChars(text) \o "\""

\* The response text of a mockup with the given html and css.
MockupText(html, css) ==
  "{\"html\":" \o JsonString(html) \o ",\"css\":" \o JsonString(css) \o "}"

\* JSON.parse of MockupText(html, css).
MockupData(html, css) ==
  [ok |-> TRUE, error |-> "",
   value |-> [type |-> "object", fields |-> [html |-> html, css |-> css]]]

\* handleGenerate resumes after generateContent resolved with the text of
\* a mockup.
MockupResolves(i, html, css) ==
  /\ inflight[i].phase = "json"
  /\ event' = Event("resolve", MockupText(html, css))
  /\ resumed(i, MockupData(html, css))

\* The page after init, the activation of the mockup feature and its swap,
\* the prompt typed and the generate button clicked: the request waits.
InitPreview ==
  /\ apiKey = TRUE
  /\ started = TRUE
  /\ handlers = TRUE
  /\ workspace = "workspace"
  /\ activeFeature = "ui-mockup-generator"
  /\ isLoading = TRUE
  /\ opacity = "1"
  /\ navActive = {"ui-mockup-generator"}
  /\ header = HeaderOf("ui-mockup-generator")
  /\ hidden = {"about", "author"}
  /\ prompt = <<" ", "x", " ">>
  /\ response = EmptyResponse
  /\ loaderHidden = FALSE
  /\ generateDisabled = TRUE
  /\ promptDisabled = TRUE
  /\ timers = <<>>
  /\ inflight =
       <<[feature |-> "ui-mockup-generator",
          fullPrompt |-> <<FEATURES["ui-mockup-generator"].promptPrefix, "x">>,
          phase |-> "json",
          fullResponseText |-> "",
          chunks |-> 0]>>
  /\ unhandled = FALSE
  /\ preview = NoPreview
  /\ copy = NoCopyButtons
  /\ stale = FALSE
  /\ event = Event("generate", "")

NextPreview ==
  \E i \in 1..Len(inflight) :
    \E html \in TextsUpTo(MaxPreviewLen), css \in TextsUpTo(MaxPreviewLen) :
      MockupResolves(i, html, css)

SpecPreview == InitPreview /\ [][NextPreview]_vars

\* ------------------------------------------------------------- claims

\* The view region that shows the view `k`.
RegionOf(k) == IF k = About THEN "about" ELSE IF k = Author THEN "author" ELSE "feature"

\* A text of whitespace characters only (the empty text included).
IsBlank(s) == \A n \in 1..Len(s) : s[n] \in WhiteSpace

\* The fields a feature's schema requires are those of the parsed object.
MatchesSchema(text, k) ==
  /\ JsonParse(text).ok
  /\ JsonParse(text).value.type = "object"
  /\ DOMAIN JsonParse(text).value.fields = FEATURES[k].schema

\* The renderer that lays out the structured result of feature `k`.
RendererOf(k) == IF k = "bug-squasher" THEN "analysis" ELSE "mockup"

\* C1: the loading flag is set only while a generation is in flight, so
\* every generate call that got past its preconditions clears it again.
C1_LoadingOnlyWhileInFlight == isLoading => inflight # <<>>

\* C2: a generate call made while isLoading is true starts no request, and
\* at most one request is outstanding at any time.
C2_SingleFlight ==
  [][/\ (event'.op = "generate" /\ isLoading) => inflight' = inflight
     /\ Len(inflight') <= 1]_vars

\* C2 witness: generate was clicked after a chunk of the running stream had
\* arrived, and that stream is still the only request.
C2_Witness ==
  /\ event.op = "generate"
  /\ isLoading
  /\ Len(inflight) = 1
  /\ inflight[1].chunks = 1

\* C3: a structured result that matches the schema of the feature that
\* issued the request is rendered by that feature's renderer.
C3_ResultGoesToIssuingRenderer ==
  [][(/\ event'.op = "resolve"
      /\ Len(inflight) = 1
      /\ MatchesSchema(event'.arg, inflight[1].feature))
       => response'.kind = RendererOf(inflight[1].feature)]_vars

\* C4: when the request rejects, the stream fails or the response text is
\* not JSON, the output area holds the error panel alone, nothing escapes
\* handleGenerate and the loading state is cleared.
C4_FailureShowsErrorPanel ==
  [][(\/ event'.op \in {"reject", "fail"}
      \/ event'.op = "resolve" /\ ~JsonParse(event'.arg).ok)
       => /\ response'.kind = "error"
          /\ response' = ErrorPanel(response'.content)
          /\ preview' = NoPreview
          /\ copy' = NoCopyButtons
          /\ unhandled' = unhandled
          /\ ~isLoading'
          /\ loaderHidden' /\ ~generateDisabled' /\ ~promptDisabled'
          /\ inflight' = <<>>]_vars

\* C4 witness: a stream failed after chunks were shown; the panel replaced them.
C4_Witness ==
  /\ event.op = "fail"
  /\ response.kind = "error"
  /\ ~isLoading
  /\ inflight = <<>>

\* C5: each chunk is appended to the accumulator, which is shown verbatim;
\* nothing else changes the accumulator; at stream end the output is the
\* markdown rendering of the whole accumulated text.
C5_StreamingAccumulates ==
  [][/\ event'.op = "chunk" =>
          /\ Len(inflight) = 1 /\ Len(inflight') = 1
          /\ inflight'[1].fullResponseText = inflight[1].fullResponseText \o event'.arg
          /\ response'.kind = "text"
          /\ response'.content = inflight'[1].fullResponseText
     /\ (event'.op # "chunk" /\ Len(inflight) = 1 /\ Len(inflight') = 1) =>
          inflight'[1].fullResponseText = inflight[1].fullResponseText
     /\ event'.op = "end" =>
          /\ Len(inflight) = 1
          /\ response'.kind = "html"
          /\ response'.content =
               (IF inflight[1].fullResponseText = "" THEN ""
                ELSE "<p>" \o inflight[1].fullResponseText \o "</p>\n")]_vars

\* C5 witness: the chunks "Hel" and "lo" arrived in this order and the
\* stream ended.
C5_Witness ==
  /\ event.op = "end"
  /\ response.kind = "html"
  /\ response.content = "<p>Hello</p>\n"

\* C6: the swap of activate(id) leaves exactly the region of id visible and
\* exactly the nav control of id active, and the last swap to run is the
\* one of the current activeFeature.
C6_SwapShowsOneRegion ==
  [][event'.op = "timer" =>
       /\ navActive' = {event'.arg}
       /\ Views \ hidden' = {RegionOf(event'.arg)}
       /\ Cardinality(Views \ hidden') = 1
       /\ timers' = <<>> => event'.arg = activeFeature']_vars

\* C6 witness: the swap of activate('author') has run.
C6_Witness ==
  /\ event.op = "timer"
  /\ event.arg = Author
  /\ navActive = {Author}
  /\ hidden = {"feature", "about"}
  /\ timers = <<>>

\* C7: activate with an absent id or with the current activeFeature changes
\* nothing and schedules no swap.
C7_ActivateCurrentIsNoOp ==
  [][(event'.op = "nav" /\ event'.arg \in {NoKey, activeFeature})
       => UNCHANGED program]_vars

\* C7 witness: activate(activeFeature) was called with the handlers attached
\* after the swap of that feature had run, and no swap is pending.
C7_Witness ==
  /\ handlers
  /\ event = Event("nav", activeFeature)
  /\ activeFeature = "bug-squasher"
  /\ navActive = {"bug-squasher"}
  /\ timers = <<>>

\* C8: generate with an empty or whitespace-only prompt changes nothing: no
\* request, no loading state, no change of the output area.
C8_BlankInputIsNoOp ==
  [][(event'.op = "generate" /\ IsBlank(prompt)) => UNCHANGED program]_vars

\* C8 witness: generate was called with a whitespace-only prompt while
\* idle, with the handler attached.
C8_Witness ==
  /\ handlers
  /\ event.op = "generate"
  /\ prompt = <<" ", "\n">>
  /\ ~isLoading

\* C9: a tabbed output always has exactly one active tab button and exactly
\* one visible pane, the pane the button names; a fresh render shows the
\* first pane.
C9_OneTabOnePane ==
  [][/\ response'.kind \in {"analysis", "mockup"} =>
          \E t \in TabsOf(response'.kind) :
            /\ response'.activeTabs = {t}
            /\ response'.visiblePanes = {"tab-" \o t}
     /\ (event'.op = "resolve" /\ response'.kind = "analysis") =>
          response'.activeTabs = {"analysis"}
     /\ (event'.op = "resolve" /\ response'.kind = "mockup") =>
          response'.activeTabs = {"preview"}]_vars

\* C9 witness: the third tab of a mockup output was clicked.
C9_Witness ==
  /\ event = Event("tab", "css")
  /\ response.kind = "mockup"
  /\ response.activeTabs = {"css"}
  /\ response.visiblePanes = {"tab-css"}

\* C10: without an API key no handler is attached: activeFeature and
\* isLoading keep their initial values, nothing is scheduled or requested.
C10_NoKeyNoFeature ==
  ~apiKey =>
    /\ ~handlers
    /\ activeFeature = DefaultFeature
    /\ ~isLoading
    /\ inflight = <<>>
    /\ timers = <<>>

\* C10 witness: init ran without a key and the generate button was clicked.
C10_Witness ==
  /\ ~apiKey
  /\ started
  /\ workspace = "configError"
  /\ event.op = "generate"

\* The value an HTML parser reads for a double-quoted attribute whose text
\* starts at position n of the markup: everything up to the next quote.
RECURSIVE QuotedValueFrom(_, _)
QuotedValueFrom(markup, n) ==
  IF n > Len(markup) \/ markup[n] = "\"" THEN <<>>
  ELSE <<markup[n]>> \o QuotedValueFrom(markup, n + 1)

\* C11: the value written into srcdoc holds no double quote, whatever html
\* and css hold, so a parser reads the whole value as the attribute.
C11_SrcdocHasNoQuote ==
  preview.stage = "written" =>
    /\ \A n \in 1..Len(preview.srcdoc) : preview.srcdoc[n] # "\""
    /\ Len(preview.srcdoc) = Len(srcDocOf(preview.html, preview.css))
    /\ QuotedValueFrom(iframeMarkup(preview.srcdoc), 7) = preview.srcdoc

\* C11 witness: a preview was written whose html and css both hold double
\* quotes.
C11_Witness ==
  /\ preview.stage = "written"
  /\ preview.html = <<"\"", "\"">>
  /\ preview.css = <<"a", "\"">>

\* The events that resume a suspended handleGenerate.
GenerationEvents == {"resolve", "reject", "open", "chunk", "end", "fail"}

\* C12: a generate call made while activeFeature is a sentinel view is a
\* no-op: nothing is thrown, no request is made, the loading flag is not
\* set.
C12_SentinelGenerateIsNoOp ==
  [][(event'.op = "generate" /\ handlers /\ activeFeature \notin DOMAIN FEATURES)
       => /\ unhandled' = unhandled
          /\ inflight' = inflight
          /\ isLoading' = isLoading]_vars

\* C13: once the swap of a feature has run, a request begun before it for
\* another feature writes nothing more to the output area.
C13_StaleResultDiscarded ==
  [][(/\ event'.op \in GenerationEvents
      /\ stale
      /\ Len(inflight) = 1
      /\ inflight[1].feature # activeFeature)
       => response' = response]_vars

\* C14: only the swap of the latest activate call runs: the swap of a
\* superseded call is abandoned.
C14_LatestActivateWins ==
  [][event'.op = "timer" => event'.arg = activeFeature']_vars

\* C15: header texts, nav highlighting and visible region change only while
\* the header opacity is 0, and the opacity returns to 1 only with the
\* texts of the target feature written.
C15_ContentChangesWhileFadedOut ==
  [][/\ (header' # header \/ navActive' # navActive \/ hidden' # hidden)
          => opacity = "0"
     /\ (opacity = "0" /\ opacity' = "1")
          => /\ activeFeature' \in DOMAIN FEATURES
             /\ header' = HeaderOf(activeFeature')]_vars

\* C16: a response that parses as JSON but lacks fields of the schema of
\* the requesting (and still active) feature ends in the error panel.
C16_SchemaMismatchShowsErrorPanel ==
  [][(/\ event'.op = "resolve"
      /\ Len(inflight) = 1
      /\ activeFeature = inflight[1].feature
      /\ JsonParse(event'.arg).ok
      /\ ~MatchesSchema(event'.arg, inflight[1].feature))
       => response'.kind = "error"]_vars

\* C18: loader, trigger button and prompt input follow the loading flag in
\* every state, and neither activate nor its swap changes any of them.
C18_ControlsFollowFlag ==
  /\ loaderHidden = ~isLoading
  /\ generateDisabled = isLoading
  /\ promptDisabled = isLoading
  /\ [][/\ loaderHidden' = ~isLoading'
        /\ generateDisabled' = isLoading'
        /\ promptDisabled' = isLoading'
        /\ event'.op \in {"nav", "timer"} => UNCHANGED loadVars]_vars

\* C18 witness: the swap of a feature ran during a generation, and the
\* controls still show the loading state.
C18_Witness ==
  /\ event.op = "timer"
  /\ stale
  /\ isLoading
  /\ ~loaderHidden
  /\ generateDisabled
  /\ promptDisabled

\* C19: after init with an API key, with no swap pending, the nav control
\* of the default feature is active and the header shows its texts.
C19_InitShowsDefaultFeature ==
  (apiKey /\ event.op = "init" /\ timers = <<>>) =>
    /\ navActive = {DefaultFeature}
    /\ header = HeaderOf(DefaultFeature)

\* C17: for the whole delay after an activation of a copy button, the
\* button is labeled "Copied!".
C17_CopiedForTheWholeDelay ==
  \A b \in DOMAIN copy.label :
    copy.sinceClick[b] < CopyFeedbackMs => copy.label[b] = "Copied!"

====
